---- MODULE Spec2Model ----
(***************************************************************************)
(* Model of src/api/index.js: the HTTP handler of the football "squares"   *)
(* board.  One JSON document is kept in a key-value store under GAME_KEY;  *)
(* every request fetches it (creating the default document when the key is *)
(* missing), a POST applies one action to it and writes the whole document *)
(* back.                                                                   *)
(*                                                                         *)
(* The board is scaled: NumSquares slots stand for the 100 of the source   *)
(* and NumDigits header digits for its 10.  Every index test of the source *)
(* is kept, with MaxIndex = NumSquares - 1 in the place of 99.             *)
(***************************************************************************)
EXTENDS Integers, Sequences, FiniteSets, TLC

VARIABLES store, req, res, sets, pc, pending, local, calls, answered

vars == <<store, req, res, sets, pc, pending, local, calls, answered>>

\* The handler invocations that may be in flight at the same time.
Procs == {"A", "B"}

(***************************************************************************)
(* Bounds of the model.                                                    *)
(***************************************************************************)
NumSquares == 2
NumDigits == 2

MaxIndex == NumSquares - 1
NumQuarters == 4
MaxQuarter == NumQuarters - 1

(***************************************************************************)
(* JavaScript values.  A value carries its type, so that the loose tests   *)
(* of the source (!x, x < 0, x !== undefined, x || 2) are computed as the  *)
(* language computes them.  Strings the code measures or converts are      *)
(* sequences of characters; names and scores are opaque strings.           *)
(***************************************************************************)
Undefined == [type |-> "undefined"]
Null == [type |-> "null"]
Num(n) == [type |-> "number", val |-> n]
Str(s) == [type |-> "string", val |-> s]

Falsy(v) ==
    CASE v.type = "undefined" -> TRUE
      [] v.type = "null" -> TRUE
      [] v.type = "number" -> v.val = 0
      [] v.type = "string" -> Len(v.val) = 0

Truthy(v) == ~Falsy(v)

\* v < n and v > n for a number n: undefined converts to NaN (every
\* comparison false), null converts to 0.
Lt(v, n) ==
    CASE v.type = "number" -> v.val < n
      [] v.type = "null" -> 0 < n
      [] OTHER -> FALSE

Gt(v, n) ==
    CASE v.type = "number" -> v.val > n
      [] v.type = "null" -> 0 > n
      [] OTHER -> FALSE

Ge(v, n) ==
    CASE v.type = "number" -> v.val >= n
      [] v.type = "null" -> 0 >= n
      [] OTHER -> FALSE

\* String.prototype.toUpperCase on one character: the sharp s has no
\* single upper-case letter and becomes two characters.
UpperChar(c) ==
    CASE c = "a" -> <<"A">>
      [] c = "b" -> <<"B">>
      [] c = "c" -> <<"C">>
      [] c = "d" -> <<"D">>
      [] c = "e" -> <<"E">>
      [] c = "ß" -> <<"S", "S">>
      [] OTHER -> <<c>>

RECURSIVE UpperSeq(_)
UpperSeq(s) == IF s = <<>> THEN <<>> ELSE UpperChar(Head(s)) \o UpperSeq(Tail(s))

toUpperCase(v) == Str(UpperSeq(v.val))

\* array[index]: an element for an integer index inside the array,
\* undefined for every other key.
IsElement(array, index) == index.type = "number" /\ index.val \in DOMAIN array

Element(array, index) == IF IsElement(array, index) THEN array[index.val] ELSE Undefined

\* array[index] = value as the store and the response see it: a key that is
\* not an element index is dropped by the JSON serialisation.
SetElement(array, index, value) ==
    IF IsElement(array, index) THEN [array EXCEPT ![index.val] = value] ELSE array

(***************************************************************************)
(* The document.                                                           *)
(***************************************************************************)
GAME_KEY == "superbowl-game-state"

EmptyArray == [i \in {} |-> Null]

EmptySquares == [i \in 0..MaxIndex |-> Null]

EmptyScore == [team1 |-> Str(""), team2 |-> Str("")]

EmptyScores == [q \in 0..MaxQuarter |-> EmptyScore]

defaultState ==
    [squares |-> EmptySquares,
     rowNumbers |-> EmptyArray,
     colNumbers |-> EmptyArray,
     numbersAssigned |-> FALSE,
     team1Name |-> Str("Patriots"),
     team2Name |-> Str("Seahawks"),
     pricePerSquare |-> Num(2),
     quarterScores |-> EmptyScores]

\* The fetch that returns the default document without persisting it.
getGameStateNoPersist(kv) ==
    IF kv = Null
    THEN [state |-> defaultState, sets |-> <<>>, saveFails |-> FALSE]
    ELSE [state |-> kv, sets |-> <<>>, saveFails |-> FALSE]

\* redis.get / getGameState: the fetched document, and the documents the
\* fetch writes (the default document when the key is missing).  saveFails
\* tells whether the redis.set of saveGameState will throw; it never does
\* when requests are served one after another on a working store.
getGameState(kv) ==
    IF kv = Null
    THEN [state |-> defaultState, sets |-> <<defaultState>>, saveFails |-> FALSE]
    ELSE [state |-> kv, sets |-> <<>>, saveFails |-> FALSE]

\* saveGameState: one more write of the whole document.
saveGameState(fetch, state) == Append(fetch.sets, state)

\* shuffle: Fisher-Yates, rnd[i] is the value of
\* Math.floor(Math.random() * (i + 1)) in the iteration for i.
\* The exchange that loses arr[i]: arr[i] = arr[j] alone.
SwapLost(arr, i, j) == [arr EXCEPT ![i] = arr[j]]

Swap(arr, i, j) == [arr EXCEPT ![i] = arr[j], ![j] = arr[i]]

RECURSIVE shuffleFrom(_, _, _)
shuffleFrom(arr, i, rnd) ==
    IF i > 0 THEN shuffleFrom(Swap(arr, i, rnd[i]), i - 1, rnd) ELSE arr

shuffle(array, rnd) == shuffleFrom(array, NumDigits - 1, rnd)

Digits == [i \in 0..(NumDigits - 1) |-> i]

RandomChoices == {r \in [1..(NumDigits - 1) -> 0..(NumDigits - 1)] :
                    \A i \in 1..(NumDigits - 1) : r[i] <= i}

(***************************************************************************)
(* Requests.  The inputs of a request are drawn from these sets; the fields *)
(* an action does not read are left undefined.                             *)
(***************************************************************************)
IndexInputs == {Undefined} \cup {Num(i) : i \in (-1)..NumSquares}

InitialsInputs ==
    {Undefined, Str(<<"a">>), Str(<<"a", "b">>), Str(<<"ß", "ß", "ß">>),
     Str(<<"a", "b", "c", "d", "e">>)}

NameInputs == {Undefined, Str(""), Str("Chiefs")}

PriceInputs == {Undefined, Null, Num(-1), Num(0), Num(3)}

QuarterInputs == {Undefined} \cup {Num(q) : q \in (-1)..NumQuarters}

Team1ScoreInputs == {Str("7")}

Team2ScoreInputs == {Str("3")}

\* The narrower inputs of a specification that does not vary a field.
OneIndexInputs == {Num(0), Num(NumSquares)}

OneInitialsInputs == {Str(<<"a", "b">>), Str(<<"a">>)}

ValidIndexInputs == {Num(i) : i \in 0..MaxIndex}

ValidInitialsInputs == {Str(<<"a", "b">>)}

NoNameInputs == {Undefined}

BadPriceInputs == {Num(-1)}

GoodPriceInputs == {Num(3)}

BadQuarterInputs == {Num(NumQuarters)}

GoodQuarterInputs == {Num(2)}

NoBody ==
    [action |-> "", index |-> Undefined, initials |-> Undefined,
     team1Name |-> Undefined, team2Name |-> Undefined, quarter |-> Undefined,
     team1Score |-> Undefined, team2Score |-> Undefined, price |-> Undefined]

Post(body) == [method |-> "POST", body |-> body]

Error(text) == [error |-> text]

\* The request is answered: status and body of the response, the documents
\* passed to redis.set while serving it, and the store after them.
Serve(r, status, json, written) ==
    /\ req' = r
    /\ res' = [status |-> status, json |-> json]
    /\ sets' = written
    /\ store' = IF written = <<>> THEN store ELSE written[Len(written)]

\* The answer of the catch block of the handler.
ServerError == [error |-> "Server error", message |-> "store"]

\* The save answered with the document as it was fetched.
SavedStaleBody(r, fetch, state) ==
    IF fetch.saveFails
    THEN Serve(r, 500, ServerError, fetch.sets)
    ELSE Serve(r, 200, fetch.state, saveGameState(fetch, state))

\* A POST that ends in saveGameState(state): 200 with the saved document,
\* or 500 and nothing written when its redis.set throws.
Saved(r, fetch, state) ==
    IF fetch.saveFails
    THEN Serve(r, 500, ServerError, fetch.sets)
    ELSE Serve(r, 200, state, saveGameState(fetch, state))

\* A validation error answered after the document was written back.
RejectedAfterSave(r, fetch, text) ==
    Serve(r, 400, Error(text), saveGameState(fetch, fetch.state))

\* A POST that ends in a validation error.
Rejected(r, fetch, text) == Serve(r, 400, Error(text), fetch.sets)

Init ==
    /\ store = Null
    /\ req = [method |-> "NONE"]
    /\ res = [status |-> 0, json |-> Undefined]
    /\ sets = <<>>
    /\ pc = [p \in Procs |-> "idle"]
    /\ pending = [p \in Procs |-> [method |-> "NONE"]]
    /\ local = [p \in Procs |-> Null]
    /\ calls = [p \in Procs |-> <<>>]
    /\ answered = [p \in Procs |-> 0]

\* A request served alone, from its fetch to its response, while no other
\* handler invocation is in flight.
Alone == UNCHANGED <<pc, pending, local, calls, answered>>

Options == Serve([method |-> "OPTIONS"], 200, Undefined, <<>>) /\ Alone

Get ==
    LET fetch == getGameState(store)
    IN  Serve([method |-> "GET"], 200, fetch.state, fetch.sets) /\ Alone

MethodNotAllowed ==
    Serve([method |-> "DELETE"], 405, Error("Method not allowed"), <<>>) /\ Alone

\* The claim case without its test of the target slot.
ClaimCaseOverwrite(r, fetch) ==
    LET gameState == fetch.state
        index == r.body.index
        initials == r.body.initials
    IN  IF Lt(index, 0) \/ Gt(index, MaxIndex)
        THEN Rejected(r, fetch, "Invalid square index")
        ELSE IF Falsy(initials) \/ Len(initials.val) < 2 \/ Len(initials.val) > 4
        THEN Rejected(r, fetch, "Initials must be 2-4 characters")
        ELSE Saved(r, fetch,
                   [gameState EXCEPT
                      !.squares = SetElement(@, index, toUpperCase(initials))])

\* The claim case storing the initials as they were sent.
ClaimCaseAsSent(r, fetch) ==
    LET gameState == fetch.state
        index == r.body.index
        initials == r.body.initials
    IN  IF Lt(index, 0) \/ Gt(index, MaxIndex)
        THEN Rejected(r, fetch, "Invalid square index")
        ELSE IF Falsy(initials) \/ Len(initials.val) < 2 \/ Len(initials.val) > 4
        THEN Rejected(r, fetch, "Initials must be 2-4 characters")
        ELSE IF Truthy(Element(gameState.squares, index))
        THEN Rejected(r, fetch, "Square already claimed")
        ELSE Saved(r, fetch,
                   [gameState EXCEPT !.squares = SetElement(@, index, initials)])

ClaimCase(r, fetch) ==
    LET gameState == fetch.state
        index == r.body.index
        initials == r.body.initials
    IN  IF Lt(index, 0) \/ Gt(index, MaxIndex)
        THEN Rejected(r, fetch, "Invalid square index")
        ELSE IF Falsy(initials) \/ Len(initials.val) < 2 \/ Len(initials.val) > 4
        THEN Rejected(r, fetch, "Initials must be 2-4 characters")
        ELSE IF Truthy(Element(gameState.squares, index))
        THEN Rejected(r, fetch, "Square already claimed")
        ELSE Saved(r, fetch,
                   [gameState EXCEPT
                      !.squares = SetElement(@, index, toUpperCase(initials))])

Claim(indexes, labels) ==
    /\ \E index \in indexes, initials \in labels :
           ClaimCase(Post([NoBody EXCEPT !.action = "claim", !.index = index,
                                         !.initials = initials]),
                     getGameState(store))
    /\ Alone

Claimed(squares) == Cardinality({i \in DOMAIN squares : squares[i] # Null})

\* The assign-numbers case that exchanges the names without the temporary.
AssignNumbersCaseNoTemp(r, fetch) ==
    LET gameState == fetch.state
    IN  IF Claimed(gameState.squares) < NumSquares
        THEN Rejected(r, fetch, "All squares must be claimed first")
        ELSE \E rowRnd \in RandomChoices, colRnd \in RandomChoices,
                swapTeams \in BOOLEAN :
                Saved(r, fetch,
                      [gameState EXCEPT
                         !.rowNumbers = shuffle(Digits, rowRnd),
                         !.colNumbers = shuffle(Digits, colRnd),
                         !.numbersAssigned = TRUE,
                         !.team1Name = IF swapTeams THEN gameState.team2Name ELSE @])

AssignNumbersCase(r, fetch) ==
    LET gameState == fetch.state
    IN  IF Claimed(gameState.squares) < NumSquares
        THEN Rejected(r, fetch, "All squares must be claimed first")
        ELSE \E rowRnd \in RandomChoices, colRnd \in RandomChoices,
                swapTeams \in BOOLEAN :
                Saved(r, fetch,
                      [gameState EXCEPT
                         !.rowNumbers = shuffle(Digits, rowRnd),
                         !.colNumbers = shuffle(Digits, colRnd),
                         !.numbersAssigned = TRUE,
                         !.team1Name = IF swapTeams THEN gameState.team2Name ELSE @,
                         !.team2Name = IF swapTeams THEN gameState.team1Name ELSE @])

AssignNumbers ==
    /\ AssignNumbersCase(Post([NoBody EXCEPT !.action = "assign-numbers"]),
                         getGameState(store))
    /\ Alone

UpdateTeamsCase(r, fetch) ==
    LET gameState == fetch.state
        team1Name == r.body.team1Name
        team2Name == r.body.team2Name
    IN  Saved(r, fetch,
              [gameState EXCEPT
                 !.team1Name = IF Truthy(team1Name) THEN team1Name ELSE @,
                 !.team2Name = IF Truthy(team2Name) THEN team2Name ELSE @])

UpdateTeams(names) ==
    /\ \E team1Name \in names, team2Name \in names :
           UpdateTeamsCase(Post([NoBody EXCEPT !.action = "update-teams",
                                               !.team1Name = team1Name,
                                               !.team2Name = team2Name]),
                           getGameState(store))
    /\ Alone

\* The update-price case that takes every defined price.
UpdatePriceCaseAnyPrice(r, fetch) ==
    LET gameState == fetch.state
        price == r.body.price
    IN  Saved(r, fetch,
              [gameState EXCEPT
                 !.pricePerSquare = IF price # Undefined THEN price ELSE @])

\* The update-price case that tests the price for truth: if (price).
UpdatePriceCaseTruthy(r, fetch) ==
    LET gameState == fetch.state
        price == r.body.price
    IN  Saved(r, fetch,
              [gameState EXCEPT
                 !.pricePerSquare =
                     IF Truthy(price) /\ Ge(price, 0) THEN price ELSE @])

UpdatePriceCase(r, fetch) ==
    LET gameState == fetch.state
        price == r.body.price
    IN  Saved(r, fetch,
              [gameState EXCEPT
                 !.pricePerSquare =
                     IF price # Undefined /\ Ge(price, 0) THEN price ELSE @])

UpdatePrice(prices) ==
    /\ \E price \in prices :
           UpdatePriceCase(Post([NoBody EXCEPT !.action = "update-price",
                                               !.price = price]),
                           getGameState(store))
    /\ Alone

\* The set-score case that replaces the whole score list's entries.
SetScoreCaseAllQuarters(r, fetch) ==
    LET gameState == fetch.state
        quarter == r.body.quarter
    IN  IF Lt(quarter, 0) \/ Gt(quarter, MaxQuarter)
        THEN Rejected(r, fetch, "Invalid quarter")
        ELSE Saved(r, fetch,
                   [gameState EXCEPT
                      !.quarterScores =
                          [q \in DOMAIN @ |-> [team1 |-> r.body.team1Score,
                                               team2 |-> r.body.team2Score]]])

SetScoreCase(r, fetch) ==
    LET gameState == fetch.state
        quarter == r.body.quarter
    IN  IF Lt(quarter, 0) \/ Gt(quarter, MaxQuarter)
        THEN Rejected(r, fetch, "Invalid quarter")
        ELSE Saved(r, fetch,
                   [gameState EXCEPT
                      !.quarterScores =
                          SetElement(@, quarter, [team1 |-> r.body.team1Score,
                                                  team2 |-> r.body.team2Score])])

SetScore(quarters) ==
    /\ \E quarter \in quarters, team1Score \in Team1ScoreInputs,
          team2Score \in Team2ScoreInputs :
           SetScoreCase(Post([NoBody EXCEPT !.action = "set-score",
                                            !.quarter = quarter,
                                            !.team1Score = team1Score,
                                            !.team2Score = team2Score]),
                        getGameState(store))
    /\ Alone

\* The erase case that also withdraws the number assignment.
EraseCaseUnassign(r, fetch) ==
    LET gameState == fetch.state
        index == r.body.index
    IN  IF Lt(index, 0) \/ Gt(index, MaxIndex)
        THEN Rejected(r, fetch, "Invalid square index")
        ELSE Saved(r, fetch,
                   [gameState EXCEPT !.squares = SetElement(@, index, Null),
                                     !.numbersAssigned = FALSE])

\* The erase case with the upper test off by one: index > 100.
EraseCaseOffByOne(r, fetch) ==
    LET gameState == fetch.state
        index == r.body.index
    IN  IF Lt(index, 0) \/ Gt(index, NumSquares)
        THEN Rejected(r, fetch, "Invalid square index")
        ELSE Saved(r, fetch,
                   [gameState EXCEPT !.squares = SetElement(@, index, Null)])

EraseCase(r, fetch) ==
    LET gameState == fetch.state
        index == r.body.index
    IN  IF Lt(index, 0) \/ Gt(index, MaxIndex)
        THEN Rejected(r, fetch, "Invalid square index")
        ELSE Saved(r, fetch,
                   [gameState EXCEPT !.squares = SetElement(@, index, Null)])

Erase(indexes) ==
    /\ \E index \in indexes :
           EraseCase(Post([NoBody EXCEPT !.action = "erase", !.index = index]),
                     getGameState(store))
    /\ Alone

\* The clear-board case that also forgets the number assignment.
ClearBoardCaseUnassign(r, fetch) ==
    Saved(r, fetch, [fetch.state EXCEPT !.squares = EmptySquares,
                                        !.rowNumbers = EmptyArray,
                                        !.colNumbers = EmptyArray,
                                        !.numbersAssigned = FALSE])

ClearBoardCase(r, fetch) ==
    Saved(r, fetch, [fetch.state EXCEPT !.squares = EmptySquares])

ClearBoard ==
    /\ ClearBoardCase(Post([NoBody EXCEPT !.action = "clear-board"]),
                      getGameState(store))
    /\ Alone

\* The reset document that keeps the column digits.
resetStateKeepCols(gameState) ==
    [squares |-> EmptySquares,
     rowNumbers |-> EmptyArray,
     colNumbers |-> gameState.colNumbers,
     numbersAssigned |-> FALSE,
     team1Name |-> gameState.team1Name,
     team2Name |-> gameState.team2Name,
     pricePerSquare |-> IF Truthy(gameState.pricePerSquare)
                        THEN gameState.pricePerSquare ELSE Num(2),
     quarterScores |-> EmptyScores]

resetState(gameState) ==
    [squares |-> EmptySquares,
     rowNumbers |-> EmptyArray,
     colNumbers |-> EmptyArray,
     numbersAssigned |-> FALSE,
     team1Name |-> gameState.team1Name,
     team2Name |-> gameState.team2Name,
     pricePerSquare |-> IF Truthy(gameState.pricePerSquare)
                        THEN gameState.pricePerSquare ELSE Num(2),
     quarterScores |-> EmptyScores]

ResetCase(r, fetch) == Saved(r, fetch, resetState(fetch.state))

Reset ==
    /\ ResetCase(Post([NoBody EXCEPT !.action = "reset"]), getGameState(store))
    /\ Alone

InvalidActionCase(r, fetch) == Rejected(r, fetch, "Invalid action")

InvalidAction ==
    /\ InvalidActionCase(Post([NoBody EXCEPT !.action = "bogus"]),
                         getGameState(store))
    /\ Alone

(***************************************************************************)
(* Three specifications of the same handler, requests served one after     *)
(* another.  Spec draws every index and every initials input and leaves    *)
(* the names, the price and the scores alone; SpecFields draws every name, *)
(* price and quarter input on a board that is never filled; SpecGame fills *)
(* the board with one label and sets one price and one score, so that the  *)
(* numbers are assigned on documents whose other fields have changed.      *)
(***************************************************************************)
Next ==
    \/ Options
    \/ Get
    \/ MethodNotAllowed
    \/ Claim(IndexInputs, InitialsInputs)
    \/ AssignNumbers
    \/ UpdateTeams(NoNameInputs)
    \/ UpdatePrice(BadPriceInputs)
    \/ SetScore(BadQuarterInputs)
    \/ Erase(IndexInputs)
    \/ ClearBoard
    \/ Reset
    \/ InvalidAction

Spec == Init /\ [][Next]_vars

NextFields ==
    \/ Options
    \/ Get
    \/ MethodNotAllowed
    \/ Claim(OneIndexInputs, OneInitialsInputs)
    \/ AssignNumbers
    \/ UpdateTeams(NameInputs)
    \/ UpdatePrice(PriceInputs)
    \/ SetScore(QuarterInputs)
    \/ Erase(OneIndexInputs)
    \/ ClearBoard
    \/ Reset
    \/ InvalidAction

SpecFields == Init /\ [][NextFields]_vars

NextGame ==
    \/ Options
    \/ Get
    \/ MethodNotAllowed
    \/ Claim(ValidIndexInputs, ValidInitialsInputs)
    \/ AssignNumbers
    \/ UpdateTeams(NoNameInputs)
    \/ UpdatePrice(GoodPriceInputs)
    \/ SetScore(GoodQuarterInputs)
    \/ Erase(ValidIndexInputs)
    \/ ClearBoard
    \/ Reset
    \/ InvalidAction

SpecGame == Init /\ [][NextGame]_vars

(***************************************************************************)
(* SpecConc: handler invocations in flight at the same time.  An invocation *)
(* gives way to the others at each await: after redis.get, after the       *)
(* redis.set of the default document, and it answers in the step of its    *)
(* last store call.  Each store call may throw; a call that throws leaves  *)
(* the store as it is.  Here sets' holds what the answering step wrote.    *)
(***************************************************************************)
ConcIndexInputs == {Num(0), Num(MaxIndex)}

ConcRequests ==
    {[method |-> "GET"]} \cup
    {Post([NoBody EXCEPT !.action = "claim", !.index = index,
                         !.initials = initials]) :
        index \in ConcIndexInputs, initials \in ValidInitialsInputs}

\* The method test and the switch on the action, on a fetched document.
handler(r, fetch) ==
    IF r.method = "GET"
    THEN Serve(r, 200, fetch.state, fetch.sets)
    ELSE CASE r.body.action = "claim" -> ClaimCase(r, fetch)
           [] r.body.action = "assign-numbers" -> AssignNumbersCase(r, fetch)
           [] r.body.action = "update-teams" -> UpdateTeamsCase(r, fetch)
           [] r.body.action = "update-price" -> UpdatePriceCase(r, fetch)
           [] r.body.action = "set-score" -> SetScoreCase(r, fetch)
           [] r.body.action = "erase" -> EraseCase(r, fetch)
           [] r.body.action = "clear-board" -> ClearBoardCase(r, fetch)
           [] r.body.action = "reset" -> ResetCase(r, fetch)
           [] OTHER -> InvalidActionCase(r, fetch)

\* A request arrives and its redis.get returns: the stored document, or
\* nothing when the key is missing.
Fetch(p, r) ==
    /\ pc[p] = "idle"
    /\ pending' = [pending EXCEPT ![p] = r]
    /\ calls' = [calls EXCEPT ![p] = <<"get">>]
    /\ answered' = [answered EXCEPT ![p] = 0]
    /\ local' = [local EXCEPT ![p] = store]
    /\ pc' = [pc EXCEPT ![p] = IF store = Null THEN "missing" ELSE "fetched"]
    /\ UNCHANGED <<store, req, res, sets>>

\* The failed fetch that is tried once more before giving up.
FetchFailsRetry(p, r) ==
    /\ pc[p] = "idle"
    /\ Serve(r, 500, ServerError, <<>>)
    /\ pending' = [pending EXCEPT ![p] = r]
    /\ calls' = [calls EXCEPT ![p] = <<"get", "get">>]
    /\ answered' = [answered EXCEPT ![p] = 500]
    /\ UNCHANGED <<pc, local>>

\* A request arrives and its redis.get throws: the catch block answers 500.
FetchFails(p, r) ==
    /\ pc[p] = "idle"
    /\ Serve(r, 500, ServerError, <<>>)
    /\ pending' = [pending EXCEPT ![p] = r]
    /\ calls' = [calls EXCEPT ![p] = <<"get">>]
    /\ answered' = [answered EXCEPT ![p] = 500]
    /\ UNCHANGED <<pc, local>>

\* getGameState found no document: redis.set of the default document.
Initialise(p) ==
    /\ pc[p] = "missing"
    /\ store' = defaultState
    /\ local' = [local EXCEPT ![p] = defaultState]
    /\ pc' = [pc EXCEPT ![p] = "fetched"]
    /\ calls' = [calls EXCEPT ![p] = Append(@, "set")]
    /\ UNCHANGED <<req, res, sets, pending, answered>>

\* The redis.set of the default document throws: 500.
InitialiseFails(p) ==
    /\ pc[p] = "missing"
    /\ Serve(pending[p], 500, ServerError, <<>>)
    /\ pc' = [pc EXCEPT ![p] = "idle"]
    /\ local' = [local EXCEPT ![p] = Null]
    /\ calls' = [calls EXCEPT ![p] = Append(@, "set")]
    /\ answered' = [answered EXCEPT ![p] = 500]
    /\ UNCHANGED pending

\* The answer computed on the document the store holds at that moment, as
\* if only the change were sent to the store.
RespondMerged(p) ==
    /\ pc[p] = "fetched"
    /\ \E saveFails \in BOOLEAN :
           handler(pending[p], [state |-> IF store = Null THEN local[p] ELSE store,
                                sets |-> <<>>, saveFails |-> saveFails])
    /\ pc' = [pc EXCEPT ![p] = "idle"]
    /\ local' = [local EXCEPT ![p] = Null]
    /\ answered' = [answered EXCEPT ![p] = res'.status]
    /\ calls' = [calls EXCEPT ![p] =
                    IF sets' # <<>> \/ res'.status = 500 THEN Append(@, "set") ELSE @]
    /\ UNCHANGED pending

\* The rest of the handler on the fetched document: the case of the action,
\* its saveGameState (which may throw) and the response.
Respond(p) ==
    /\ pc[p] = "fetched"
    /\ \E saveFails \in BOOLEAN :
           handler(pending[p], [state |-> local[p], sets |-> <<>>,
                                saveFails |-> saveFails])
    /\ pc' = [pc EXCEPT ![p] = "idle"]
    /\ local' = [local EXCEPT ![p] = Null]
    /\ answered' = [answered EXCEPT ![p] = res'.status]
    /\ calls' = [calls EXCEPT ![p] =
                    IF sets' # <<>> \/ res'.status = 500 THEN Append(@, "set") ELSE @]
    /\ UNCHANGED pending

NextConc ==
    \E p \in Procs :
        \/ \E r \in ConcRequests : Fetch(p, r)
        \/ \E r \in ConcRequests : FetchFails(p, r)
        \/ Initialise(p)
        \/ InitialiseFails(p)
        \/ Respond(p)

SpecConc == Init /\ [][NextConc]_vars

(***************************************************************************)
(* The claims.  A step of the specification serves one request: store is   *)
(* the content of the store before it and store' after it, req' is the     *)
(* request, res' its response and sets' the documents it wrote.            *)
(***************************************************************************)
Served(action) == req'.method = "POST" /\ req'.body.action = action

Serving(action) == req.method = "POST" /\ req.body.action = action

DefaultDocument ==
    [squares |-> [i \in 0..MaxIndex |-> Null],
     rowNumbers |-> <<>>,
     colNumbers |-> <<>>,
     numbersAssigned |-> FALSE,
     team1Name |-> Str("Patriots"),
     team2Name |-> Str("Seahawks"),
     pricePerSquare |-> Num(2),
     quarterScores |-> [q \in 0..3 |-> [team1 |-> Str(""), team2 |-> Str("")]]]

\* The document a request works on: the stored one, or the default document
\* when the store holds none.
Before == IF store = Null THEN DefaultDocument ELSE store

IsIndex(v) == v.type = "number" /\ v.val \in 0..MaxIndex

IsInitials(v) == v.type = "string" /\ Len(v.val) \in 2..4

Upper(c) ==
    CASE c = "a" -> <<"A">>
      [] c = "b" -> <<"B">>
      [] c = "ß" -> <<"S", "S">>

IsPermutation(a) ==
    /\ DOMAIN a = 0..(NumDigits - 1)
    /\ {a[i] : i \in DOMAIN a} = 0..(NumDigits - 1)

\* C1: a claim with an index in range and initials of 2 to 4 characters on
\* an empty slot returns 200, stores the upper-cased initials in that slot
\* and changes nothing else; on a non-empty slot it returns 400 and the
\* stored document stays as it was.
C1_ClaimSetsOrRejects ==
    [][(Served("claim") /\ IsIndex(req'.body.index)
            /\ IsInitials(req'.body.initials)) =>
        LET i == req'.body.index.val
            s == req'.body.initials.val
            label == Str(Upper(s[1]) \o Upper(s[2]) \o
                         (IF Len(s) > 2 THEN Upper(s[3]) ELSE <<>>) \o
                         (IF Len(s) > 3 THEN Upper(s[4]) ELSE <<>>))
        IN  IF Before.squares[i] = Null
            THEN /\ res'.status = 200
                 /\ store' = [Before EXCEPT !.squares[i] = label]
                 /\ res'.json = store'
            ELSE /\ res'.status = 400
                 /\ store' = store]_vars

C1_Witness ==
    /\ Serving("claim")
    /\ res.status = 200
    /\ req.body.initials = Str(<<"a", "b">>)
    /\ req.body.index = Num(MaxIndex)
    /\ store.squares[MaxIndex] = Str(<<"A", "B">>)
    /\ store.squares[0] = Str(<<"S", "S", "S", "S", "S", "S">>)

\* C2: a slot never goes from one label directly to a different label, and
\* no claim request changes a slot that holds a label.
C2_NoSilentOverwrite ==
    [][(store # Null /\ store' # Null) =>
        \A i \in 0..MaxIndex :
            /\ (store.squares[i] # Null /\ store'.squares[i] # Null)
                   => store'.squares[i] = store.squares[i]
            /\ (Served("claim") /\ store.squares[i] # Null)
                   => store'.squares[i] = store.squares[i]]_vars

C2_Witness ==
    /\ Serving("claim")
    /\ res.status = 400
    /\ res.json = [error |-> "Square already claimed"]
    /\ req.body.initials = Str(<<"a", "b">>)
    /\ IsIndex(req.body.index)
    /\ store.squares[req.body.index.val] = Str(<<"S", "S", "S", "S", "S", "S">>)

\* C3: assign-numbers returns 200 exactly when every slot of the fetched
\* document is non-empty, otherwise 400 with the document unchanged; on
\* success rowNumbers and colNumbers are permutations of the digits and
\* numbersAssigned is true, whatever the random choices.
C3_AssignNumbers ==
    [][Served("assign-numbers") =>
        /\ res'.status = 200 <=> (\A i \in 0..MaxIndex : Before.squares[i] # Null)
        /\ res'.status # 200 => (res'.status = 400 /\ store' = Before)
        /\ res'.status = 200 =>
              /\ IsPermutation(store'.rowNumbers)
              /\ IsPermutation(store'.colNumbers)
              /\ store'.numbersAssigned = TRUE]_vars

C3_Witness ==
    /\ Serving("assign-numbers")
    /\ res.status = 200
    /\ store.numbersAssigned
    /\ store.rowNumbers # store.colNumbers
    /\ \E i \in DOMAIN store.rowNumbers : store.rowNumbers[i] # i

\* C4: after a reset, a GET (which returns the stored document) shows an
\* empty board, no digits, numbersAssigned false, four empty score pairs, and
\* the team names and the price the document had before the reset.
C4_ResetKeepsNamesAndPrice ==
    [][Served("reset") =>
        LET got == IF store' = Null THEN DefaultDocument ELSE store'
        IN  /\ res'.status = 200
            /\ got.squares = [i \in 0..MaxIndex |-> Null]
            /\ got.rowNumbers = <<>>
            /\ got.colNumbers = <<>>
            /\ got.numbersAssigned = FALSE
            /\ got.quarterScores =
                   [q \in 0..3 |-> [team1 |-> Str(""), team2 |-> Str("")]]
            /\ got.team1Name = Before.team1Name
            /\ got.team2Name = Before.team2Name
            /\ got.pricePerSquare = Before.pricePerSquare]_vars

IsBadPrice(v) == v.type = "undefined" \/ (v.type = "number" /\ v.val < 0)

C6_RejectedLeavesStore ==
    [][res'.status = 400 => (store' = store /\ sets' = <<>>)]_vars

\* C6 as amended: a request answered with 400 never writes the document it
\* worked on: a store that held a document keeps it and nothing is written;
\* a store that held nothing has been given the default document by the
\* fetch, and that is the only write.
C6_RejectedNeverSaves ==
    [][res'.status = 400 =>
        /\ req'.method = "POST"
        /\ IF store = Null
           THEN store' = DefaultDocument /\ sets' = <<DefaultDocument>>
           ELSE store' = store /\ sets' = <<>>]_vars

C6_Witness ==
    /\ Serving("bogus")
    /\ res.status = 400
    /\ sets = <<DefaultDocument>>
    /\ store = DefaultDocument

\* C7: a GET on a store without a document persists the default document and
\* returns it with 200; a GET on a store with a document returns that
\* document with 200 and writes nothing.
C7_GetFetchesOrInitialises ==
    [][req'.method = "GET" =>
        /\ res'.status = 200
        /\ IF store = Null
           THEN /\ res'.json = DefaultDocument
                /\ store' = DefaultDocument
                /\ sets' = <<DefaultDocument>>
           ELSE /\ res'.json = store
                /\ store' = store
                /\ sets' = <<>>]_vars

C7_Witness ==
    /\ req.method = "GET"
    /\ res.status = 200
    /\ res.json = DefaultDocument
    /\ store = DefaultDocument
    /\ sets = <<DefaultDocument>>

\* C8: clear-board always returns 200 and empties every slot, and leaves
\* rowNumbers, colNumbers, numbersAssigned, the team names, the price and the
\* scores as they were.
C8_ClearBoardFrame ==
    [][Served("clear-board") =>
        /\ res'.status = 200
        /\ store' = [Before EXCEPT !.squares = [i \in 0..MaxIndex |-> Null]]
        /\ res'.json = store']_vars

C8_Witness ==
    /\ Serving("clear-board")
    /\ res.status = 200
    /\ store.numbersAssigned
    /\ IsPermutation(store.rowNumbers)
    /\ \A i \in 0..MaxIndex : store.squares[i] = Null
    /\ store.pricePerSquare = Num(3)
    /\ store.quarterScores[2] = [team1 |-> Str("7"), team2 |-> Str("3")]

IsNumber(v) == v.type = "number"

\* C9: a set-score for a quarter in 0..3 replaces that entry of
\* quarterScores with the pair of the request and changes nothing else; for a
\* quarter below 0 or above 3 it returns 400 and changes nothing.
C9_SetScoreFrame ==
    [][(Served("set-score") /\ IsNumber(req'.body.quarter)) =>
        LET q == req'.body.quarter.val
        IN  IF q \in 0..3
            THEN /\ res'.status = 200
                 /\ store' = [Before EXCEPT
                                !.quarterScores[q] =
                                    [team1 |-> req'.body.team1Score,
                                     team2 |-> req'.body.team2Score]]
            ELSE /\ res'.status = 400
                 /\ store' = Before]_vars

C9_Witness ==
    /\ Serving("set-score")
    /\ res.status = 200
    /\ req.body.quarter = Num(2)
    /\ store.quarterScores[2] = [team1 |-> Str("7"), team2 |-> Str("3")]
    /\ store.quarterScores[0] = [team1 |-> Str("7"), team2 |-> Str("3")]
    /\ store.quarterScores[1] = [team1 |-> Str(""), team2 |-> Str("")]
    /\ store.quarterScores[3] = [team1 |-> Str(""), team2 |-> Str("")]

\* C10: in every stored document rowNumbers and colNumbers are both empty or
\* both permutations of the digits, and they are empty exactly when
\* numbersAssigned is false; so no request fills one without the other.
C10_NumbersTogether ==
    store # Null =>
        /\ \/ (store.rowNumbers = <<>> /\ store.colNumbers = <<>>)
           \/ (IsPermutation(store.rowNumbers) /\ IsPermutation(store.colNumbers))
        /\ (store.rowNumbers = <<>>) <=> ~store.numbersAssigned
        /\ (store.colNumbers = <<>>) <=> ~store.numbersAssigned

C10_Witness ==
    /\ Serving("erase")
    /\ res.status = 200
    /\ store.numbersAssigned
    /\ IsPermutation(store.rowNumbers)
    /\ IsPermutation(store.colNumbers)
    /\ store.rowNumbers # store.colNumbers
    /\ store.squares[0] = Null

After == IF store' = Null THEN DefaultDocument ELSE store'

IsLabel(v) ==
    /\ v.type = "string"
    /\ Len(v.val) \in 2..4
    /\ \A k \in 1..Len(v.val) : v.val[k] \in {"A", "B", "C", "D", "E", "S"}

\* C11: in every stored document squares has exactly its full number of
\* slots, each empty or an upper-case label of 2 to 4 characters,
\* quarterScores has exactly 4 entries and pricePerSquare is a number
\* greater than or equal to 0.
C11_DocumentShape ==
    store # Null =>
        /\ DOMAIN store.squares = 0..MaxIndex
        /\ \A i \in 0..MaxIndex :
               store.squares[i] = Null \/ IsLabel(store.squares[i])
        /\ DOMAIN store.quarterScores = 0..3
        /\ store.pricePerSquare.type = "number"
        /\ store.pricePerSquare.val >= 0

\* C12: numbersAssigned goes from false to true only in an assign-numbers
\* answered with 200, and from true to false only in a reset; every other
\* request leaves it as it is.
C12_NumbersAssignedFlag ==
    [][/\ (~Before.numbersAssigned /\ After.numbersAssigned)
              => (Served("assign-numbers") /\ res'.status = 200)
       /\ (Before.numbersAssigned /\ ~After.numbersAssigned)
              => Served("reset")
       /\ (Served("assign-numbers") /\ res'.status = 200)
              => After.numbersAssigned]_vars

C12_Witness ==
    /\ Serving("set-score")
    /\ res.status = 200
    /\ store.numbersAssigned
    /\ store.quarterScores[2] = [team1 |-> Str("7"), team2 |-> Str("3")]
    /\ store.squares[0] = Null

IsGoodPrice(v) == v.type = "number" /\ v.val >= 0

\* C13: an update-price with a price p >= 0 returns 200 and stores p as the
\* price, changing nothing else; the same request served again right after
\* returns 200 and leaves the stored document as the first left it.
C13_UpdatePriceIdempotent ==
    [][(Served("update-price") /\ IsGoodPrice(req'.body.price)) =>
        /\ res'.status = 200
        /\ store' = [Before EXCEPT !.pricePerSquare = req'.body.price]
        /\ (Serving("update-price") /\ req.body.price = req'.body.price)
               => store' = store]_vars

C13_Witness ==
    /\ Serving("update-price")
    /\ req.body.price = Num(0)
    /\ res.status = 200
    /\ store.pricePerSquare = Num(0)
    /\ res.json = store

C18_AssignNumbersFrame ==
    [][(Served("assign-numbers") /\ res'.status = 200) =>
        /\ store'.squares = Before.squares
        /\ store'.pricePerSquare = Before.pricePerSquare
        /\ store'.quarterScores = Before.quarterScores
        /\ \/ (store'.team1Name = Before.team1Name
                  /\ store'.team2Name = Before.team2Name)
           \/ (store'.team1Name = Before.team2Name
                  /\ store'.team2Name = Before.team1Name)]_vars

C18_Witness ==
    /\ Serving("assign-numbers")
    /\ res.status = 200
    /\ store.team1Name = Str("Seahawks")
    /\ store.team2Name = Str("Patriots")
    /\ store.pricePerSquare = Num(3)
    /\ store.quarterScores[2] = [team1 |-> Str("7"), team2 |-> Str("3")]

\* C19: once the numbers are assigned, rowNumbers, colNumbers and the order
\* of the team names keep their values under every request but a reset.
C19_AssignmentIsFinal ==
    [][(Before.numbersAssigned /\ ~Served("reset")) =>
        /\ After.rowNumbers = Before.rowNumbers
        /\ After.colNumbers = Before.colNumbers
        /\ After.team1Name = Before.team1Name
        /\ After.team2Name = Before.team2Name]_vars

(***************************************************************************)
(* The claims about invocations in flight at the same time (SpecConc).     *)
(***************************************************************************)
\* The step is a step of invocation p.
Moved(p) ==
    \/ pc'[p] # pc[p]
    \/ calls'[p] # calls[p]
    \/ pending'[p] # pending[p]
    \/ answered'[p] # answered[p]

IsClaim(r) == r.method = "POST" /\ r.body.action = "claim"

\* C14: a claim answered with 200 writes back the whole document it
\* fetched, with its own slot set, whatever the store holds by then; so of
\* two claims that both fetch before either persists, both are answered 200
\* and the store keeps only the slot of the one that persisted last.
C14_WholeDocumentWrittenBack ==
    [][\A p \in Procs :
        (pc[p] = "fetched" /\ pc'[p] = "idle" /\ IsClaim(pending[p])
            /\ res'.status = 200) =>
          /\ store' = [local[p] EXCEPT
                         !.squares[pending[p].body.index.val] =
                             Str(<<"A", "B">>)]
          /\ res'.json = store']_vars

C14_Witness ==
    /\ \A p \in Procs : pc[p] = "idle" /\ IsClaim(pending[p]) /\ answered[p] = 200
    /\ \A p \in Procs : calls[p] = <<"get", "set">>
    /\ pending["A"].body.index = Num(0)
    /\ pending["B"].body.index = Num(MaxIndex)
    /\ store.squares[0] = Null
    /\ store.squares[MaxIndex] = Str(<<"A", "B">>)

\* C15 as claimed: a request makes at most two store calls, one fetch
\* followed by at most one persist.
C15_TwoStoreCalls ==
    \A p \in Procs : calls[p] \in {<<>>, <<"get">>, <<"get", "set">>}

\* C15 as amended: a request makes at most three store calls, in this
\* order: one fetch, one persist of the default document when the key is
\* missing, and at most one persist by saveGameState.  It is answered only
\* when its last call has returned, and a POST answered with 200 returns
\* the document that its persist wrote.
C15_ThreeStoreCalls ==
    [][\A p \in Procs :
        /\ calls'[p] \in {<<>>, <<"get">>, <<"get", "set">>,
                          <<"get", "set", "set">>}
        /\ (pc'[p] = "missing") => calls'[p] = <<"get">>
        /\ (pc[p] = "idle" /\ pc'[p] = "missing") => store = Null
        /\ (answered'[p] # 0) => pc'[p] = "idle"
        /\ (Len(calls'[p]) = 3 /\ Moved(p)) => calls[p] = <<"get", "set">>
        /\ (Moved(p) /\ answered'[p] = 200 /\ pending'[p].method = "POST") =>
              /\ sets' = <<res'.json>>
              /\ store' = res'.json
              /\ calls'[p][Len(calls'[p])] = "set"]_vars

C15_Witness ==
    \E p \in Procs :
        /\ calls[p] = <<"get", "set", "set">>
        /\ answered[p] = 200
        /\ IsClaim(pending[p])
        /\ res.json = store
        /\ store.squares[pending[p].body.index.val] = Str(<<"A", "B">>)

\* The content of the store when the request of p was fetched.
AtFetch(p) == IF calls[p] = <<"get">> THEN local[p] ELSE Null

\* C16 as claimed: a request whose persist throws is answered 500 and the
\* store keeps the content it had before the request (here for a request
\* served while no other invocation has run).
C16_FailedPersistKeepsStore ==
    [][\A p \in Procs :
        (pc[p] = "fetched" /\ pc'[p] = "idle" /\ res'.status = 500
            /\ \A q \in Procs \ {p} : calls[q] = <<>>) =>
          store' = AtFetch(p)]_vars

\* C16 as amended: a store call that throws is answered 500 at once and is
\* not tried again; the failing step writes nothing, so after a failed fetch
\* the request has made no write, and after a failed persist the store holds
\* what it held just before that call: its content before the request or,
\* when the key was missing, the default document the fetch had persisted.
C16_FailureAborts ==
    [][\A p \in Procs :
        (Moved(p) /\ answered'[p] = 500) =>
          /\ res'.status = 500
          /\ pc'[p] = "idle"
          /\ store' = store
          /\ sets' = <<>>
          /\ local'[p] = Null
          /\ calls'[p] \in {<<"get">>, <<"get", "set">>, <<"get", "set", "set">>}
          /\ (pc[p] = "idle") => calls'[p] = <<"get">>
          /\ (pc[p] # "idle") => calls'[p] = Append(calls[p], "set")
          /\ (pc[p] = "fetched" /\ \A q \in Procs \ {p} : calls[q] = <<>>) =>
                store' = IF AtFetch(p) = Null THEN DefaultDocument
                         ELSE AtFetch(p)]_vars

C16_Witness ==
    \E p \in Procs :
        /\ answered[p] = 500
        /\ calls[p] = <<"get", "set", "set">>
        /\ IsClaim(pending[p])
        /\ res.status = 500
        /\ store = DefaultDocument
        /\ \A q \in Procs \ {p} : calls[q] = <<>>

\* C20: once the store holds a document, no step of a GET request and no
\* write of the default document changes the content of the store.
C20_InitialisationNeverOverwrites ==
    [][\A p \in Procs :
        /\ (store # Null /\ Moved(p) /\ pending'[p].method = "GET")
               => store' = store
        /\ (store # Null /\ pc[p] = "missing" /\ pc'[p] = "fetched")
               => store' = store]_vars

====
